---- MODULE Spec2Model ----
(***************************************************************************)
(* Model of the persistence layer of "Leads do Capitao"                    *)
(* (services/storageService.ts) and of the App and PublicPage handlers     *)
(* that call it.  Spec runs the storage operations, SpecApp the handlers,  *)
(* SpecStored the storage operations on a store holding any text.          *)
(*                                                                         *)
(* localStorage is a function from the keys that are set to stored         *)
(* strings.  A stored string is the output of JSON.stringify               *)
(* ([tag |-> "json", v |-> value]) or a raw string ([tag |-> "raw", ...]). *)
(* crypto.randomUUID() is a counter of fresh ids; every timestamp of the   *)
(* code is taken next to a randomUUID() call, so the logical clock is the  *)
(* number of ids generated so far.  String literals are the source's,     *)
(* without their diacritics.                                               *)
(***************************************************************************)
EXTENDS Integers, Sequences, FiniteSets, TLC

VARIABLES
  localStorage,  \* the browser store: key -> stored string
  nextId,        \* state of crypto.randomUUID(): index of the next fresh id
  lastOp,        \* history: the operation that produced this state, with its arguments
  ret,           \* history: what that operation returned
  pre,           \* history: localStorage as it was before that operation
  formsEver,     \* history: the pairs <<user id, form id>> of the forms a collection ever held
  currentUser,   \* React state of App: the signed-in user, or null
  currentFormId, \* React state of App: the form selected in the panel, or "all"
  publicPage     \* React state of PublicPage: pageOwnerId, activeFormId, status

vars == <<localStorage, nextId, lastOp, ret, pre, formsEver, currentUser, currentFormId,
          publicPage>>
appVars == <<currentUser, currentFormId, publicPage>>

\* ------------------------------------------------------------------ bounds

\* Number of crypto.randomUUID() calls in one behaviour.
MaxIds == 3

\* ------------------------------------------------------------ JS values

null == [tag |-> "null"]
undefined == "<undefined>"
void == [tag |-> "void"]
\* The value JSON.parse gives for the text {} .
emptyObject == [tag |-> "object"]
\* What a caller gets instead of a return value when the operation throws
\* (users.find on null, forms.push on an object, ...).
TypeError == [tag |-> "TypeError"]

\* JavaScript truthiness of a string-or-undefined value.
Truthy(x) == x # undefined /\ x # ""

UUID(n) == "id" \o ToString(n)

\* new Date().toISOString(): the logical clock (see the header).
Now(n) == n

Min(S) == CHOOSE x \in S : \A y \in S : x <= y

\* Array.prototype.findIndex: first index satisfying P, or -1 (indices from 1 here).
FindIndex(seq, P(_)) ==
  LET I == {i \in DOMAIN seq : P(seq[i])}
  IN IF I = {} THEN -1 ELSE Min(I)

\* Array.prototype.find: Found tells whether it returns an element, Find is
\* that element (undefined otherwise).
Found(seq, P(_)) == FindIndex(seq, P) # -1
Find(seq, P(_)) ==
  LET i == FindIndex(seq, P)
  IN IF i = -1 THEN undefined ELSE seq[i]

\* Array.prototype.filter
Filter(seq, P(_)) == SelectSeq(seq, P)

\* Array.prototype.map
Map(seq, F(_)) == [i \in DOMAIN seq |-> F(seq[i])]

\* Array.prototype.some
Some(seq, P(_)) == \E i \in DOMAIN seq : P(seq[i])

\* ------------------------------------------------------------ constants

KEYS == [USERS |-> "saas_users", CURRENT_SESSION |-> "saas_session_uid"]

\* getUserKey that names one key per kind of data, whatever the user.
getUserKey_Shared(uid, type) == "saas_" \o type

getUserKey(uid, type) == "saas_" \o uid \o "_" \o type

DEFAULT_SETTINGS ==
  [headline |-> "Baixe nosso E-book Exclusivo Agora!",
   subheadline |-> "Descubra os segredos para alavancar seu negocio com nosso material gratuito. Preencha os dados para receber.",
   ctaText |-> "Receber Arquivo",
   logoUrl |-> "/logo.png",
   heroImageUrl |-> "https://picsum.photos/800/600",
   primaryColor |-> "#2563eb",
   backgroundColor |-> "#f3f4f6",
   textColor |-> "#1f2937",
   redirectUrl |-> "https://google.com",
   fileName |-> "ebook-estrategico.pdf"]

adminEmail == "doutortao@gmail.com.br"

\* ---------------------------------------------------------- localStorage

\* The store holds the keys that were set; getItem gives null for any other.
getItem(ls, key) == IF key \in DOMAIN ls THEN ls[key] ELSE null
setItem(ls, key, value) == [k \in DOMAIN ls \cup {key} |-> IF k = key THEN value ELSE ls[k]]
removeItem(ls, key) == [k \in DOMAIN ls \ {key} |-> ls[k]]

\* The stored strings: the output of JSON.stringify for a list the program
\* wrote, the JSON texts null and {}, and any other text (an id, the empty
\* string, a text JSON.parse rejects).
JSONstringify(value) == [tag |-> "json", v |-> value]
RawString(s) == [tag |-> "raw", v |-> s]
JSONnull == [tag |-> "json_null"]
JSONobject == [tag |-> "json_object"]

\* !json : getItem gave null or the empty string.
Falsy(json) == json = null \/ (json.tag = "raw" /\ json.v = "")

\* safeParse: the fallback for a null or empty string and for a string
\* JSON.parse rejects, the parsed value otherwise.
safeParse(json, fallback) ==
  IF Falsy(json) THEN fallback
  ELSE IF json.tag = "json" THEN json.v
  ELSE IF json.tag = "json_null" THEN null
  ELSE IF json.tag = "json_object" THEN emptyObject
  ELSE fallback

\* The run-time type of safeParse(json, []): "array", "null" or "object".
\* TLA+ values carry no type, so the operations below read it here where the
\* code calls an Array method on the parsed value.
typeOfParsed(json) ==
  IF Falsy(json) THEN "array"
  ELSE IF json.tag = "json_null" THEN "null"
  ELSE IF json.tag = "json_object" THEN "object"
  ELSE "array"

\* { ...x } : null and {} contribute no key.
Spread(x) == IF x = null \/ x = emptyObject THEN <<>> ELSE x

\* The result of an operation that throws with the store at ls and n ids
\* drawn: the writes made before the throw stay.
Throw(ls, n) == [ls |-> ls, n |-> n, ret |-> TypeError, err |-> TRUE]
Threw(r) == "err" \in DOMAIN r

\* ------------------------------------------------------------ auth, users

getStoredUsers(ls) == safeParse(getItem(ls, KEYS.USERS), <<>>)
usersType(ls) == typeOfParsed(getItem(ls, KEYS.USERS))

\* Mutant: the stored record is returned as it is.
Sanitize_Stored(user) == user

\* const { password: _, ...sanitizedUser } = user
Sanitize(user) == [k \in DOMAIN user \ {"password"} |-> user[k]]

\* Mutant: a user without a stored form collection is shown a default form.
getForms_Default(ls, userId) ==
  IF Falsy(getItem(ls, getUserKey(userId, "forms")))
  THEN <<[id |-> "default", title |-> "Meu Primeiro Formulario", createdAt |-> Now(0)]
           @@ DEFAULT_SETTINGS>>
  ELSE safeParse(getItem(ls, getUserKey(userId, "forms")), <<>>)

getForms(ls, userId) == safeParse(getItem(ls, getUserKey(userId, "forms")), <<>>)
formsType(ls, userId) == typeOfParsed(getItem(ls, getUserKey(userId, "forms")))
leadsType(ls, userId) == typeOfParsed(getItem(ls, getUserKey(userId, "leads")))

\* forms.find throws when forms is not an array.
getFormById(ls, userId, formId) ==
  LET IsIt(f) == f.id = formId
  IN IF formsType(ls, userId) # "array" THEN TypeError
     ELSE Find(getForms(ls, userId), IsIt)

\* { ...settings, id, title, createdAt }: the later keys win.
NewForm(settings, id, title, createdAt) ==
  [id |-> id, title |-> title, createdAt |-> createdAt] @@ Spread(settings)

\* Every operation below is a function of the store ls and of the id counter n
\* and yields the store and counter it leaves and the value it returns.

\* Mutant: the new form is put first.
createForm_Prepend(ls, n, userId, title) ==
  LET forms == getForms(ls, userId)
      newForm == NewForm(DEFAULT_SETTINGS, UUID(n), title, Now(n))
  IN [ls |-> setItem(ls, getUserKey(userId, "forms"), JSONstringify(<<newForm>> \o forms)),
      n |-> n + 1,
      ret |-> newForm]

\* forms.push throws when forms is not an array, after the id was drawn.
createForm(ls, n, userId, title) ==
  LET forms == getForms(ls, userId)
      newForm == NewForm(DEFAULT_SETTINGS, UUID(n), title, Now(n))
  IN IF formsType(ls, userId) # "array" THEN Throw(ls, n + 1)
     ELSE [ls |-> setItem(ls, getUserKey(userId, "forms"), JSONstringify(Append(forms, newForm))),
           n |-> n + 1,
           ret |-> newForm]

\* Mutant: the duplicate check is skipped.
registerUser_NoCheck(ls, n, name, email, password) ==
  LET users == getStoredUsers(ls)
      newUser == [id |-> UUID(n), name |-> name, email |-> email,
                  password |-> password, createdAt |-> Now(n)]
      ls1 == setItem(ls, KEYS.USERS, JSONstringify(Append(users, newUser)))
      made == createForm(ls1, n + 1, newUser.id, "Meu Primeiro Formulario")
  IN [ls |-> made.ls, n |-> made.n, ret |-> Sanitize(newUser)]

\* Mutant: a taken email gives the stored user back instead of null.
registerUser_ReturnsExisting(ls, n, name, email, password) ==
  LET users == getStoredUsers(ls)
      SameEmail(u) == u.email = email
  IN IF Found(users, SameEmail)
     THEN [ls |-> ls, n |-> n, ret |-> Sanitize(Find(users, SameEmail))]
     ELSE registerUser_NoCheck(ls, n, name, email, password)

\* Mutant: the new user is put first in the stored list.
registerUser_Prepend(ls, n, name, email, password) ==
  LET users == getStoredUsers(ls)
      SameEmail(u) == u.email = email
      newUser == [id |-> UUID(n), name |-> name, email |-> email,
                  password |-> password, createdAt |-> Now(n)]
      ls1 == setItem(ls, KEYS.USERS, JSONstringify(<<newUser>> \o users))
      made == createForm(ls1, n + 1, newUser.id, "Meu Primeiro Formulario")
  IN IF Found(users, SameEmail)
     THEN [ls |-> ls, n |-> n, ret |-> null]
     ELSE [ls |-> made.ls, n |-> made.n, ret |-> Sanitize(newUser)]

\* users.find throws when users is not an array; a throw of createForm
\* leaves the user stored.
\* Mutant: registering signs the new user in.
registerUser_SignsIn(ls, n, name, email, password) ==
  LET users == getStoredUsers(ls)
      SameEmail(u) == u.email = email
      made == registerUser_NoCheck(ls, n, name, email, password)
  IN IF Found(users, SameEmail)
     THEN [ls |-> ls, n |-> n, ret |-> null]
     ELSE [ls |-> setItem(made.ls, KEYS.CURRENT_SESSION, RawString(made.ret.id)),
           n |-> made.n, ret |-> made.ret]

registerUser(ls, n, name, email, password) ==
  LET users == getStoredUsers(ls)
      SameEmail(u) == u.email = email
  IN IF usersType(ls) # "array" THEN Throw(ls, n)
     ELSE IF Found(users, SameEmail)
     THEN [ls |-> ls, n |-> n, ret |-> null]
     ELSE LET newUser == [id |-> UUID(n), name |-> name, email |-> email,
                          password |-> password, createdAt |-> Now(n)]
              ls1 == setItem(ls, KEYS.USERS, JSONstringify(Append(users, newUser)))
              made == createForm(ls1, n + 1, newUser.id, "Meu Primeiro Formulario")
          IN IF Threw(made) THEN made
             ELSE [ls |-> made.ls, n |-> made.n, ret |-> Sanitize(newUser)]

\* Mutant: the migration never writes.
migrateLegacySettings_Skip(ls, n, userId) == [ls |-> ls, n |-> n, ret |-> void]

\* Mutant: the migration does not look at the stored form collection.
migrateLegacySettings_Always(ls, n, userId) ==
  LET settingsToUse == safeParse(getItem(ls, getUserKey(userId, "settings")), DEFAULT_SETTINGS)
      initialForm == NewForm(settingsToUse, UUID(n), "Formulario Padrao (Migrado)", Now(n))
  IN [ls |-> setItem(ls, getUserKey(userId, "forms"),
                     JSONstringify(Append(getForms(ls, userId), initialForm))),
      n |-> n + 1, ret |-> void]

\* Mutant: a stored empty list is migrated again.
migrateLegacySettings_RefillEmpty(ls, n, userId) ==
  LET formsKey == getUserKey(userId, "forms")
      settingsToUse == safeParse(getItem(ls, getUserKey(userId, "settings")), DEFAULT_SETTINGS)
      initialForm == NewForm(settingsToUse, UUID(n), "Formulario Padrao (Migrado)", Now(n))
  IN IF Falsy(getItem(ls, formsKey)) \/ getItem(ls, formsKey) = JSONstringify(<<>>)
     THEN [ls |-> setItem(ls, formsKey, JSONstringify(<<initialForm>>)),
           n |-> n + 1, ret |-> void]
     ELSE [ls |-> ls, n |-> n, ret |-> void]

\* Mutant: the migrated form is built from the default template.
migrateLegacySettings_Default(ls, n, userId) ==
  LET formsKey == getUserKey(userId, "forms")
      initialForm == NewForm(DEFAULT_SETTINGS, UUID(n), "Formulario Padrao (Migrado)", Now(n))
  IN IF Falsy(getItem(ls, formsKey))
     THEN [ls |-> setItem(ls, formsKey, JSONstringify(<<initialForm>>)),
           n |-> n + 1, ret |-> void]
     ELSE [ls |-> ls, n |-> n, ret |-> void]

migrateLegacySettings(ls, n, userId) ==
  LET formsKey == getUserKey(userId, "forms")
      oldSettingsKey == getUserKey(userId, "settings")
      existingForms == getItem(ls, formsKey)
  IN IF Falsy(existingForms)
     THEN LET settingsToUse == safeParse(getItem(ls, oldSettingsKey), DEFAULT_SETTINGS)
              initialForm == NewForm(settingsToUse, UUID(n),
                                     "Formulario Padrao (Migrado)", Now(n))
          IN [ls |-> setItem(ls, formsKey, JSONstringify(<<initialForm>>)),
              n |-> n + 1, ret |-> void]
     ELSE [ls |-> ls, n |-> n, ret |-> void]

\* Mutant: the password is not compared.
loginUser_EmailOnly(ls, n, email, pass) ==
  LET users == getStoredUsers(ls)
      Matches(u) == u.email = email
      user == Find(users, Matches)
  IN IF Found(users, Matches)
     THEN LET ls1 == setItem(ls, KEYS.CURRENT_SESSION, RawString(user.id))
              mig == migrateLegacySettings(ls1, n, user.id)
          IN [ls |-> mig.ls, n |-> mig.n, ret |-> Sanitize(user)]
     ELSE [ls |-> ls, n |-> n, ret |-> null]

loginUser(ls, n, email, pass) ==
  LET users == getStoredUsers(ls)
      Matches(u) == u.email = email /\ u.password = pass
      user == Find(users, Matches)
  IN IF usersType(ls) # "array" THEN Throw(ls, n)
     ELSE IF Found(users, Matches)
     THEN LET ls1 == setItem(ls, KEYS.CURRENT_SESSION, RawString(user.id))
              mig == migrateLegacySettings(ls1, n, user.id)
          IN [ls |-> mig.ls, n |-> mig.n, ret |-> Sanitize(user)]
     ELSE [ls |-> ls, n |-> n, ret |-> null]

\* Mutant: the pointer is blanked, not removed.
logoutUser_Blank(ls, n) ==
  [ls |-> setItem(ls, KEYS.CURRENT_SESSION, RawString("")), n |-> n, ret |-> void]

logoutUser(ls, n) ==
  [ls |-> removeItem(ls, KEYS.CURRENT_SESSION), n |-> n, ret |-> void]

\* Mutant: a pointer that names nobody gives the first stored user.
getCurrentUser_FirstUser(ls) ==
  LET uid == getItem(ls, KEYS.CURRENT_SESSION)
      users == getStoredUsers(ls)
      IsIt(u) == u.id = uid.v
  IN IF Falsy(uid) THEN null
     ELSE IF usersType(ls) # "array" THEN TypeError
     ELSE IF Found(users, IsIt) THEN Sanitize(Find(users, IsIt))
     ELSE IF Len(users) > 0 THEN Sanitize(users[1])
     ELSE null

getCurrentUser(ls) ==
  LET uid == getItem(ls, KEYS.CURRENT_SESSION)
  IN IF Falsy(uid) THEN null
     ELSE IF usersType(ls) # "array" THEN TypeError
     ELSE LET IsIt(u) == u.id = uid.v
              users == getStoredUsers(ls)
          IN IF Found(users, IsIt) THEN Sanitize(Find(users, IsIt)) ELSE null

\* ------------------------------------------------------------------ forms

\* Mutant: the updated form is moved to the end of the list.
updateForm_MoveLast(ls, n, userId, updatedForm) ==
  LET forms == getForms(ls, userId)
      IsIt(f) == f.id = updatedForm.id
      Other(f) == f.id # updatedForm.id
  IN IF Found(forms, IsIt)
     THEN [ls |-> setItem(ls, getUserKey(userId, "forms"),
                          JSONstringify(Append(Filter(forms, Other), updatedForm))),
           n |-> n, ret |-> void]
     ELSE [ls |-> ls, n |-> n, ret |-> void]

updateForm(ls, n, userId, updatedForm) ==
  LET forms == getForms(ls, userId)
      IsIt(f) == f.id = updatedForm.id
      index == FindIndex(forms, IsIt)
  IN IF formsType(ls, userId) # "array" THEN Throw(ls, n)
     ELSE IF index # -1
     THEN [ls |-> setItem(ls, getUserKey(userId, "forms"),
                          JSONstringify([forms EXCEPT ![index] = updatedForm])),
           n |-> n, ret |-> void]
     ELSE [ls |-> ls, n |-> n, ret |-> void]

\* ------------------------------------------------------------------ leads

\* Mutant: the backfill is returned but not stored.
getAllLeads_NoPersist(ls, n, userId) ==
  LET leads == safeParse(getItem(ls, getUserKey(userId, "leads")), <<>>)
      forms == getForms(ls, userId)
      Tag(l) == IF Truthy(l.formId) \/ Len(forms) = 0 THEN l
                ELSE [l EXCEPT !.formId = forms[1].id]
  IN [ls |-> ls, n |-> n, ret |-> Map(leads, Tag)]

\* Mutant: no backfill.
getAllLeads_NoBackfill(ls, n, userId) ==
  [ls |-> ls, n |-> n, ret |-> safeParse(getItem(ls, getUserKey(userId, "leads")), <<>>)]

\* getAllLeads writes the store (the backfill of leads without a formId)
\* before it returns.  forms.length throws on null and is undefined on {};
\* leads.some is reached only with a non-empty array of forms and throws
\* when leads is not an array.
getAllLeads(ls, n, userId) ==
  LET stored == getItem(ls, getUserKey(userId, "leads"))
      leads == safeParse(stored, <<>>)
      forms == getForms(ls, userId)
      NoFormId(l) == ~Truthy(l.formId)
  IN IF formsType(ls, userId) = "null" THEN Throw(ls, n)
     ELSE IF formsType(ls, userId) = "object" THEN [ls |-> ls, n |-> n, ret |-> leads]
     ELSE IF Len(forms) = 0 THEN [ls |-> ls, n |-> n, ret |-> leads]
     ELSE IF leadsType(ls, userId) # "array" THEN Throw(ls, n)
     ELSE IF Some(leads, NoFormId)
     THEN LET defaultFormId == forms[1].id
              Tag(l) == IF Truthy(l.formId) THEN l ELSE [l EXCEPT !.formId = defaultFormId]
              tagged == Map(leads, Tag)
          IN [ls |-> setItem(ls, getUserKey(userId, "leads"), JSONstringify(tagged)),
              n |-> n, ret |-> tagged]
     ELSE [ls |-> ls, n |-> n, ret |-> leads]

\* Mutant: the leads of the deleted form are deleted with it.
deleteForm_DropLeads(ls, n, userId, formId) ==
  LET Keep(f) == f.id # formId
      ls1 == setItem(ls, getUserKey(userId, "forms"),
                     JSONstringify(Filter(getForms(ls, userId), Keep)))
      allLeads == getAllLeads(ls1, n, userId)
      Other(lead) == lead.formId # formId
  IN [ls |-> setItem(allLeads.ls, getUserKey(userId, "leads"),
                     JSONstringify(Filter(allLeads.ret, Other))),
      n |-> n, ret |-> void]

\* deleteForm up to its first write (step 1 of the code): the forms are
\* stored without formId, the leads are as they were.  This is the store
\* another tab reads, and the one that stays when the tab is closed, between
\* the two setItem calls.
deleteFormStep1(ls, n, userId, formId) ==
  LET forms == getForms(ls, userId)
      Keep(f) == f.id # formId
  IN IF formsType(ls, userId) # "array" THEN Throw(ls, n)
     ELSE [ls |-> setItem(ls, getUserKey(userId, "forms"), JSONstringify(Filter(forms, Keep))),
           n |-> n, ret |-> void]

\* Mutant: the leads are read before the form is removed.
deleteForm_ReadFirst(ls, n, userId, formId) ==
  LET forms == getForms(ls, userId)
      Keep(f) == f.id # formId
      updatedForms == Filter(forms, Keep)
      allLeads == getAllLeads(ls, n, userId)
      ls1 == setItem(allLeads.ls, getUserKey(userId, "forms"), JSONstringify(updatedForms))
      Move(lead) == IF lead.formId = formId THEN [lead EXCEPT !.formId = "consolidated"]
                    ELSE lead
      updatedLeads == Map(allLeads.ret, Move)
  IN IF formsType(ls, userId) # "array" THEN Throw(ls, n)
     ELSE IF Threw(allLeads) THEN allLeads
     ELSE IF leadsType(allLeads.ls, userId) # "array" THEN Throw(allLeads.ls, n)
     ELSE [ls |-> setItem(ls1, getUserKey(userId, "leads"), JSONstringify(updatedLeads)),
           n |-> n, ret |-> void]

\* forms.filter throws before any write; a throw of getAllLeads or of
\* allLeads.map leaves the forms written.
deleteForm(ls, n, userId, formId) ==
  LET forms == getForms(ls, userId)
      Keep(f) == f.id # formId
      updatedForms == Filter(forms, Keep)
      ls1 == setItem(ls, getUserKey(userId, "forms"), JSONstringify(updatedForms))
      allLeads == getAllLeads(ls1, n, userId)
      Move(lead) == IF lead.formId = formId THEN [lead EXCEPT !.formId = "consolidated"]
                    ELSE lead
      updatedLeads == Map(allLeads.ret, Move)
  IN IF formsType(ls, userId) # "array" THEN Throw(ls, n)
     ELSE IF Threw(allLeads) THEN allLeads
     ELSE IF leadsType(allLeads.ls, userId) # "array" THEN Throw(allLeads.ls, n)
     ELSE [ls |-> setItem(allLeads.ls, getUserKey(userId, "leads"), JSONstringify(updatedLeads)),
           n |-> n, ret |-> void]

\* Mutant: the new lead is put last.
saveLead_Append(ls, n, userId, formId, leadData) ==
  LET currentLeads == getAllLeads(ls, n, userId)
      newLead == [id |-> UUID(n), formId |-> formId, capturedAt |-> Now(n)] @@ leadData
  IN [ls |-> setItem(currentLeads.ls, getUserKey(userId, "leads"),
                     JSONstringify(Append(currentLeads.ret, newLead))),
      n |-> n + 1, ret |-> void]

saveLead(ls, n, userId, formId, leadData) ==
  LET currentLeads == getAllLeads(ls, n, userId)
      newLead == [id |-> UUID(n), formId |-> formId, capturedAt |-> Now(n)] @@ leadData
      updatedLeads == <<newLead>> \o currentLeads.ret
  IN IF Threw(currentLeads) THEN currentLeads
     ELSE IF leadsType(currentLeads.ls, userId) # "array" THEN Throw(currentLeads.ls, n + 1)
     ELSE [ls |-> setItem(currentLeads.ls, getUserKey(userId, "leads"),
                          JSONstringify(updatedLeads)),
           n |-> n + 1, ret |-> void]

\* Mutant: the updated lead is moved to the front of the list.
updateLead_MoveFirst(ls, n, userId, updatedLead) ==
  LET currentLeads == getAllLeads(ls, n, userId)
      IsIt(l) == l.id = updatedLead.id
      Other(l) == l.id # updatedLead.id
  IN IF Found(currentLeads.ret, IsIt)
     THEN [ls |-> setItem(currentLeads.ls, getUserKey(userId, "leads"),
                          JSONstringify(<<updatedLead>> \o Filter(currentLeads.ret, Other))),
           n |-> n, ret |-> void]
     ELSE [ls |-> currentLeads.ls, n |-> n, ret |-> void]

updateLead(ls, n, userId, updatedLead) ==
  LET currentLeads == getAllLeads(ls, n, userId)
      IsIt(l) == l.id = updatedLead.id
      index == FindIndex(currentLeads.ret, IsIt)
  IN IF Threw(currentLeads) THEN currentLeads
     ELSE IF leadsType(currentLeads.ls, userId) # "array" THEN Throw(currentLeads.ls, n)
     ELSE IF index # -1
     THEN [ls |-> setItem(currentLeads.ls, getUserKey(userId, "leads"),
                          JSONstringify([currentLeads.ret EXCEPT ![index] = updatedLead])),
           n |-> n, ret |-> void]
     ELSE [ls |-> currentLeads.ls, n |-> n, ret |-> void]

deleteLead(ls, n, userId, leadId) ==
  LET currentLeads == getAllLeads(ls, n, userId)
      Keep(l) == l.id # leadId
      filteredLeads == Filter(currentLeads.ret, Keep)
  IN IF Threw(currentLeads) THEN currentLeads
     ELSE IF leadsType(currentLeads.ls, userId) # "array" THEN Throw(currentLeads.ls, n)
     ELSE [ls |-> setItem(currentLeads.ls, getUserKey(userId, "leads"),
                          JSONstringify(filteredLeads)),
           n |-> n, ret |-> void]

\* Mutant: only the first lead with one of the ids is removed.
deleteMultipleLeads_FirstOnly(ls, n, userId, leadIds) ==
  LET currentLeads == getAllLeads(ls, n, userId)
      Hit(l) == l.id \in leadIds
      first == FindIndex(currentLeads.ret, Hit)
      filteredLeads == IF first = -1 THEN currentLeads.ret
                       ELSE SubSeq(currentLeads.ret, 1, first - 1) \o
                            SubSeq(currentLeads.ret, first + 1, Len(currentLeads.ret))
  IN [ls |-> setItem(currentLeads.ls, getUserKey(userId, "leads"), JSONstringify(filteredLeads)),
      n |-> n, ret |-> void]

deleteMultipleLeads(ls, n, userId, leadIds) ==
  LET currentLeads == getAllLeads(ls, n, userId)
      Keep(l) == l.id \notin leadIds
      filteredLeads == Filter(currentLeads.ret, Keep)
  IN IF Threw(currentLeads) THEN currentLeads
     ELSE IF leadsType(currentLeads.ls, userId) # "array" THEN Throw(currentLeads.ls, n)
     ELSE [ls |-> setItem(currentLeads.ls, getUserKey(userId, "leads"),
                          JSONstringify(filteredLeads)),
           n |-> n, ret |-> void]

\* --------------------------------------------------------- initialization

\* Mutant: the administrator is registered on every call.
initializeStorage_Reseed(ls, n) ==
  LET seeded == registerUser_NoCheck(ls, n, "Administrador", adminEmail, "admin123")
  IN [ls |-> seeded.ls, n |-> seeded.n, ret |-> void]

initializeStorage(ls, n) ==
  LET users == getStoredUsers(ls)
      IsAdmin(u) == u.email = adminEmail
  IN IF usersType(ls) # "array" THEN Throw(ls, n)
     ELSE IF ~Found(users, IsAdmin)
     THEN LET seeded == registerUser(ls, n, "Administrador", adminEmail, "admin123")
          IN IF Threw(seeded) THEN seeded
             ELSE [ls |-> seeded.ls, n |-> seeded.n, ret |-> void]
     ELSE [ls |-> ls, n |-> n, ret |-> void]

\* -------------------------------------------------------------------- App

\* The App handlers, as functions of the store like the operations above; the
\* React state they set is in the actions further down.
\* They run on stores the program wrote itself (SpecApp starts from Init),
\* where no storage operation throws.

loadUserData(ls, n, userId) ==
  LET userForms == getForms(ls, userId)
      made == IF Len(userForms) = 0
              THEN createForm(ls, n, userId, "Meu Primeiro Formulario")
              ELSE [ls |-> ls, n |-> n, ret |-> void]
      leads == getAllLeads(made.ls, made.n, userId)
  IN [ls |-> leads.ls, n |-> made.n, ret |-> void]

\* Mutant: the last form is deleted without a new one being created.
handleDeleteForm_NoRecovery(ls, n, userId, formId) ==
  LET deleted == deleteForm(ls, n, userId, formId)
      leads == getAllLeads(deleted.ls, deleted.n, userId)
  IN [ls |-> leads.ls, n |-> deleted.n, ret |-> void]

handleDeleteForm(ls, n, userId, formId) ==
  LET deleted == deleteForm(ls, n, userId, formId)
      updatedForms == getForms(deleted.ls, userId)
      made == IF Len(updatedForms) = 0
              THEN createForm(deleted.ls, deleted.n, userId, "Novo Formulario")
              ELSE [ls |-> deleted.ls, n |-> deleted.n, ret |-> void]
      leads == getAllLeads(made.ls, made.n, userId)
  IN [ls |-> leads.ls, n |-> made.n, ret |-> void]

\* useEffect of App: seeds the admin, then restores the session's user.
AppMount(ls, n) ==
  LET seeded == initializeStorage(ls, n)
      user == getCurrentUser(seeded.ls)
  IN IF user # null
     THEN LET loaded == loadUserData(seeded.ls, seeded.n, user.id)
          IN [ls |-> loaded.ls, n |-> loaded.n, ret |-> user]
     ELSE [ls |-> seeded.ls, n |-> seeded.n, ret |-> null]

\* AuthScreen.handleSubmit, mode 'login'
AuthLogin(ls, n, email, password) ==
  LET logged == loginUser(ls, n, email, password)
  IN IF logged.ret # null
     THEN LET loaded == loadUserData(logged.ls, logged.n, logged.ret.id)
          IN [ls |-> loaded.ls, n |-> loaded.n, ret |-> logged.ret]
     ELSE logged

\* AuthScreen.handleSubmit, mode 'register'
AuthRegister(ls, n, name, email, password) ==
  LET registered == registerUser(ls, n, name, email, password)
  IN IF registered.ret # null
     THEN LET loaded == loadUserData(registered.ls, registered.n, registered.ret.id)
          IN [ls |-> loaded.ls, n |-> loaded.n, ret |-> registered.ret]
     ELSE registered

\* AuthScreen.handleSocialLogin: a demo account per provider, signed in, or
\* registered when the login fails.
AuthSocialLogin(ls, n, provider) ==
  LET fakeEmail == "demo." \o provider \o "@example.com"
      logged == loginUser(ls, n, fakeEmail, "demo123")
      user == IF logged.ret # null THEN logged
              ELSE registerUser(logged.ls, logged.n, "Usuario " \o provider, fakeEmail, "demo123")
  IN IF user.ret # null
     THEN LET loaded == loadUserData(user.ls, user.n, user.ret.id)
          IN [ls |-> loaded.ls, n |-> loaded.n, ret |-> user.ret]
     ELSE user

\* ------------------------------------------------------------ state space

Range(seq) == {seq[i] : i \in DOMAIN seq}

\* The users, forms and leads the store holds as lists (none where the stored
\* text is not a list).
UserIds(ls) == IF usersType(ls) = "array" THEN {u.id : u \in Range(getStoredUsers(ls))} ELSE {}
StoredForms(ls, uid) == IF formsType(ls, uid) = "array" THEN getForms(ls, uid) ELSE <<>>
FormIds(ls, uid) == {f.id : f \in Range(StoredForms(ls, uid))}
StoredLeads(ls, uid) ==
  IF leadsType(ls, uid) = "array" THEN safeParse(getItem(ls, getUserKey(uid, "leads")), <<>>)
  ELSE <<>>
LeadIds(ls, uid) == {l.id : l \in Range(StoredLeads(ls, uid))}

\* A store written by the version of the program that had one settings record
\* per user and leads without a formId: the state the two migrations exist for.
LegacySettings == [DEFAULT_SETTINGS EXCEPT !.headline = "Oferta Antiga"]
LegacyUser ==
  [id |-> UUID(0), name |-> "Ana", email |-> "ana@x.com", password |-> "pw1", createdAt |-> Now(0)]
LegacyLead ==
  [id |-> "old1", formId |-> undefined, name |-> "Caio", email |-> "caio@x.com",
   whatsapp |-> "5511", capturedAt |-> Now(0)]

EmptyStore == [k \in {} |-> null]

LegacyStoreNoSettings ==
  setItem(setItem(EmptyStore, KEYS.USERS, JSONstringify(<<LegacyUser>>)),
          getUserKey(LegacyUser.id, "leads"), JSONstringify(<<LegacyLead>>))

LegacyStores ==
  {LegacyStoreNoSettings,
   setItem(LegacyStoreNoSettings, getUserKey(LegacyUser.id, "settings"),
           JSONstringify(LegacySettings))}

\* Stores whose strings were not all written by this program: each key of the
\* legacy user is absent or holds a list, the JSON text null, the JSON text
\* {}, a text JSON.parse rejects, or the empty string; the session pointer is
\* absent, empty, or names the user or nobody.
LegacyForm == NewForm(LegacySettings, "f0", "Antigo", Now(0))
Malformed == RawString("{oops")
EmptyString == RawString("")
Unexpected == {JSONnull, JSONobject, Malformed, EmptyString}
Absent == [tag |-> "absent"]

WithItem(ls, key, value) == IF value = Absent THEN ls ELSE setItem(ls, key, value)

StoredStore(users, forms, leads, settings, session) ==
  WithItem(WithItem(WithItem(WithItem(WithItem(EmptyStore,
    KEYS.USERS, users),
    getUserKey(LegacyUser.id, "forms"), forms),
    getUserKey(LegacyUser.id, "leads"), leads),
    getUserKey(LegacyUser.id, "settings"), settings),
    KEYS.CURRENT_SESSION, session)

\* Every text in the form and lead keys under a readable user list; every
\* text in the user list and in the settings next to lists the program wrote.
StoredStores ==
  {StoredStore(JSONstringify(<<LegacyUser>>), forms, leads, Absent, session) :
     forms \in {Absent, JSONstringify(<<>>), JSONstringify(<<LegacyForm>>)} \cup Unexpected,
     leads \in {Absent, JSONstringify(<<LegacyLead>>)} \cup Unexpected,
     session \in {Absent, RawString("ghost")}}
  \cup
  {StoredStore(users, JSONstringify(<<LegacyForm>>), JSONstringify(<<LegacyLead>>),
               Absent, session) :
     users \in Unexpected,
     session \in {Absent, EmptyString, RawString(LegacyUser.id)}}
  \cup
  {StoredStore(JSONstringify(<<LegacyUser>>), Absent, JSONstringify(<<LegacyLead>>),
               settings, Absent) :
     settings \in {JSONstringify(LegacySettings), JSONnull, JSONobject, Malformed}}

\* Inputs of the operations.
Names == {"Ana"}
Emails == {"ana@x.com", adminEmail}
Passwords == {"pw1", "admin123"}
Titles == {"Promo"}
LeadInputs == {[name |-> "Bia", email |-> "bia@x.com", whatsapp |-> "5521"]}

\* User ids a caller can pass: the id of a stored user, or of the user whose
\* keys the store holds when the user list cannot be read.
UidArgs == IF UserIds(localStorage) # {} THEN UserIds(localStorage)
           ELSE IF KEYS.USERS \in DOMAIN localStorage THEN {LegacyUser.id} ELSE {}

\* Form ids a caller can pass: the id of a form some user has or had.
FormIdArgs == {p[2] : p \in formsEver}

\* Forms a caller can pass to updateForm: a stored form edited, or one with an unknown id.
FormArgs(uid) ==
  {[f EXCEPT !.title = "Editado"] : f \in Range(StoredForms(localStorage, uid))}
    \cup {NewForm(DEFAULT_SETTINGS, "ghost", "Editado", Now(0))}

\* Leads a caller can pass to updateLead: a stored lead with its fields
\* edited, or one with an unknown id.
LeadArgs(uid) ==
  {[l EXCEPT !.name = "Editado"] : l \in Range(StoredLeads(localStorage, uid))}
    \cup {[id |-> "ghost", formId |-> "consolidated", name |-> "Editado",
           email |-> "bia@x.com", whatsapp |-> "5521", capturedAt |-> Now(0)]}

\* useState of PublicPage: no owner, no form, idle.  noId is the null of
\* useState<string | null>(null).
noId == "<null>"
PublicPageInit == [pageOwnerId |-> noId, activeFormId |-> noId, status |-> "idle"]

\* The history variables lastOp, ret and pre describe one operation looked at
\* in isolation: a behaviour runs operations unobserved, and may observe one,
\* which ends it.  Every step the program can take is the observed step of
\* some behaviour, so a predicate on <<pre, lastOp, ret, localStorage>> is a
\* statement on every reachable call.
Unobserved == [op |-> "none", args |-> <<>>, threw |-> FALSE]

Observe(op, args, r) ==
  \/ /\ lastOp' = [op |-> op, args |-> args, threw |-> Threw(r)]
     /\ ret' = r.ret
     /\ pre' = localStorage
  \/ /\ lastOp' = Unobserved
     /\ ret' = void
     /\ pre' = EmptyStore

Init ==
  /\ localStorage \in {EmptyStore} \cup LegacyStores
  /\ nextId = 1
  /\ lastOp = Unobserved
  /\ ret = void
  /\ pre = EmptyStore
  /\ formsEver = {}
  /\ currentUser = null
  /\ currentFormId = "all"
  /\ publicPage = PublicPageInit

\* The step of a storage operation called with args that gives result r.
Do(op, args, r) ==
  /\ lastOp = Unobserved
  /\ r.n <= MaxIds + 1
  /\ localStorage' = r.ls
  /\ nextId' = r.n
  /\ Observe(op, args, r)
  /\ formsEver' = formsEver \cup UNION {{<<u, f>> : f \in FormIds(r.ls, u)} : u \in UserIds(r.ls)}

RegisterUser ==
  \E name \in Names, email \in Emails, password \in {"pw1"} :
    /\ Do("registerUser", <<name, email, password>>,
          registerUser(localStorage, nextId, name, email, password))
    /\ UNCHANGED appVars

LoginUser ==
  \E email \in Emails, pass \in Passwords :
    /\ Do("loginUser", <<email, pass>>, loginUser(localStorage, nextId, email, pass))
    /\ UNCHANGED appVars

LogoutUser ==
  /\ Do("logoutUser", <<>>, logoutUser(localStorage, nextId))
  /\ UNCHANGED appVars

InitializeStorage ==
  /\ Do("initializeStorage", <<>>, initializeStorage(localStorage, nextId))
  /\ UNCHANGED appVars

MigrateLegacySettings ==
  \E u \in UidArgs :
    /\ Do("migrateLegacySettings", <<u>>, migrateLegacySettings(localStorage, nextId, u))
    /\ UNCHANGED appVars

GetForms ==
  \E u \in UidArgs :
    /\ Do("getForms", <<u>>, [ls |-> localStorage, n |-> nextId, ret |-> getForms(localStorage, u)])
    /\ UNCHANGED appVars

GetFormById ==
  \E u \in UidArgs, f \in FormIdArgs \cup {"ghost"} :
    /\ Do("getFormById", <<u, f>>,
          IF formsType(localStorage, u) # "array" THEN Throw(localStorage, nextId)
          ELSE [ls |-> localStorage, n |-> nextId, ret |-> getFormById(localStorage, u, f)])
    /\ UNCHANGED appVars

GetCurrentUser ==
  /\ Do("getCurrentUser", <<>>,
        IF getCurrentUser(localStorage) = TypeError THEN Throw(localStorage, nextId)
        ELSE [ls |-> localStorage, n |-> nextId, ret |-> getCurrentUser(localStorage)])
  /\ UNCHANGED appVars

CreateForm ==
  \E u \in UidArgs, title \in Titles :
    /\ Do("createForm", <<u, title>>, createForm(localStorage, nextId, u, title))
    /\ UNCHANGED appVars

UpdateForm ==
  \E u \in UidArgs : \E form \in FormArgs(u) :
    /\ Do("updateForm", <<u, form>>, updateForm(localStorage, nextId, u, form))
    /\ UNCHANGED appVars

DeleteForm ==
  \E u \in UidArgs, f \in FormIdArgs :
    /\ Do("deleteForm", <<u, f>>, deleteForm(localStorage, nextId, u, f))
    /\ UNCHANGED appVars

GetAllLeads ==
  \E u \in UidArgs :
    /\ Do("getAllLeads", <<u>>, getAllLeads(localStorage, nextId, u))
    /\ UNCHANGED appVars

SaveLead ==
  \E u \in UidArgs, f \in FormIdArgs, leadData \in LeadInputs :
    /\ Do("saveLead", <<u, f, leadData>>, saveLead(localStorage, nextId, u, f, leadData))
    /\ UNCHANGED appVars

UpdateLead ==
  \E u \in UidArgs : \E lead \in LeadArgs(u) :
    /\ Do("updateLead", <<u, lead>>, updateLead(localStorage, nextId, u, lead))
    /\ UNCHANGED appVars

DeleteLead ==
  \E u \in UidArgs : \E id \in LeadIds(localStorage, u) \cup {"ghost"} :
    /\ Do("deleteLead", <<u, id>>, deleteLead(localStorage, nextId, u, id))
    /\ UNCHANGED appVars

DeleteMultipleLeads ==
  \E u \in UidArgs : \E ids \in SUBSET (LeadIds(localStorage, u) \cup {"ghost"}) :
    /\ Do("deleteMultipleLeads", <<u, ids>>, deleteMultipleLeads(localStorage, nextId, u, ids))
    /\ UNCHANGED appVars

Next ==
  \/ RegisterUser
  \/ LoginUser
  \/ LogoutUser
  \/ InitializeStorage
  \/ MigrateLegacySettings
  \/ GetForms
  \/ GetFormById
  \/ GetCurrentUser
  \/ CreateForm
  \/ UpdateForm
  \/ DeleteForm
  \/ GetAllLeads
  \/ SaveLead
  \/ UpdateLead
  \/ DeleteLead
  \/ DeleteMultipleLeads

Spec == Init /\ [][Next]_vars

\* deleteForm stopped between its two writes.
DeleteFormStopped ==
  \E u \in UidArgs, f \in FormIdArgs :
    /\ Do("deleteForm: step 1", <<u, f>>, deleteFormStep1(localStorage, nextId, u, f))
    /\ UNCHANGED appVars

NextStop == Next \/ DeleteFormStopped

\* The storage operations on a store that keeps what was written when
\* execution stops inside deleteForm.
SpecStop == Init /\ [][NextStop]_vars

\* The same operations, started on a store that holds any text, with two
\* ids left to draw.
InitStored ==
  /\ localStorage \in StoredStores
  /\ nextId = MaxIds - 1
  /\ lastOp = Unobserved
  /\ ret = void
  /\ pre = EmptyStore
  /\ formsEver = {<<LegacyUser.id, f>> : f \in FormIds(localStorage, LegacyUser.id)}
  /\ currentUser = null
  /\ currentFormId = "all"
  /\ publicPage = PublicPageInit

SpecStored == InitStored /\ [][Next]_vars

\* ------------------------------------------------------------ App actions

\* The App component: its handlers are the only callers of the store.
Mount ==
  /\ Do("App.mount", <<>>, AppMount(localStorage, nextId))
  /\ currentUser' = AppMount(localStorage, nextId).ret
  /\ currentFormId' = "all"
  /\ UNCHANGED publicPage

SubmitLogin ==
  \E email \in Emails, pass \in Passwords :
    /\ currentUser = null
    /\ Do("App.login", <<email, pass>>, AuthLogin(localStorage, nextId, email, pass))
    /\ currentUser' = AuthLogin(localStorage, nextId, email, pass).ret
    /\ currentFormId' = "all"
    /\ UNCHANGED publicPage

SubmitRegister ==
  \E name \in Names, email \in Emails, password \in {"pw1"} :
    /\ currentUser = null
    /\ Do("App.register", <<name, email, password>>,
          AuthRegister(localStorage, nextId, name, email, password))
    /\ currentUser' = AuthRegister(localStorage, nextId, name, email, password).ret
    /\ currentFormId' = "all"
    /\ UNCHANGED publicPage

HandleCreateForm ==
  \E name \in Titles :
    /\ currentUser # null
    /\ Do("App.handleCreateForm", <<name>>, createForm(localStorage, nextId, currentUser.id, name))
    /\ currentFormId' = createForm(localStorage, nextId, currentUser.id, name).ret.id
    /\ UNCHANGED <<currentUser, publicPage>>

\* onChangeForm = setCurrentFormId: the panel offers the stored forms and "all".
ChangeForm ==
  /\ currentUser # null
  /\ lastOp = Unobserved
  /\ currentFormId' \in (FormIds(localStorage, currentUser.id) \cup {"all"}) \ {currentFormId}
  /\ UNCHANGED <<localStorage, nextId, lastOp, ret, pre, formsEver, currentUser, publicPage>>

HandleUpdateForm ==
  /\ currentUser # null
  /\ \E form \in FormArgs(currentUser.id) :
       Do("App.handleUpdateForm", <<form>>, updateForm(localStorage, nextId, currentUser.id, form))
  /\ UNCHANGED appVars

HandleDeleteForm ==
  /\ currentUser # null
  /\ Do("App.handleDeleteForm", <<currentUser.id, currentFormId>>,
        handleDeleteForm(localStorage, nextId, currentUser.id, currentFormId))
  /\ currentFormId' = "all"
  /\ UNCHANGED <<currentUser, publicPage>>

HandleAddLead ==
  \E leadData \in LeadInputs :
    /\ currentUser # null
    /\ currentFormId # "all"
    /\ LET saved == saveLead(localStorage, nextId, currentUser.id, currentFormId, leadData)
       IN Do("App.handleAddLead", <<leadData>>, getAllLeads(saved.ls, saved.n, currentUser.id))
    /\ UNCHANGED appVars

HandleUpdateLead ==
  /\ currentUser # null
  /\ \E lead \in LeadArgs(currentUser.id) :
       LET updated == updateLead(localStorage, nextId, currentUser.id, lead)
       IN Do("App.handleUpdateLead", <<lead>>, getAllLeads(updated.ls, updated.n, currentUser.id))
  /\ UNCHANGED appVars

HandleDeleteLead ==
  /\ currentUser # null
  /\ \E id \in LeadIds(localStorage, currentUser.id) :
       LET deleted == deleteLead(localStorage, nextId, currentUser.id, id)
       IN Do("App.handleDeleteLead", <<id>>, getAllLeads(deleted.ls, deleted.n, currentUser.id))
  /\ UNCHANGED appVars

HandleDeleteMultipleLeads ==
  /\ currentUser # null
  /\ \E ids \in SUBSET LeadIds(localStorage, currentUser.id) :
       LET deleted == deleteMultipleLeads(localStorage, nextId, currentUser.id, ids)
       IN Do("App.handleDeleteMultipleLeads", <<ids>>,
             getAllLeads(deleted.ls, deleted.n, currentUser.id))
  /\ UNCHANGED appVars

HandleLogout ==
  /\ Do("App.handleLogout", <<>>, logoutUser(localStorage, nextId))
  /\ currentUser' = null
  /\ UNCHANGED <<currentFormId, publicPage>>

SocialLogin ==
  \E provider \in {"google"} :
    /\ currentUser = null
    /\ Do("App.socialLogin", <<provider>>, AuthSocialLogin(localStorage, nextId, provider))
    /\ currentUser' = AuthSocialLogin(localStorage, nextId, provider).ret
    /\ currentFormId' = "all"
    /\ UNCHANGED publicPage

\* The PublicPage component, open in a visitor's tab on the same store.

\* useEffect of PublicPage with the URL parameters u and f: the form f of
\* user u, or the first form of u when f is missing or not found.
PublicOpen ==
  \E uid \in UserIds(localStorage), fid \in FormIdArgs \cup {noId} :
    LET userForms == getForms(localStorage, uid)
        IsIt(f) == f.id = fid
        targetForm == IF fid # noId /\ Found(userForms, IsIt) THEN Find(userForms, IsIt)
                      ELSE userForms[1]
    IN /\ lastOp = Unobserved
       /\ publicPage = PublicPageInit
       /\ publicPage' =
            [pageOwnerId |-> uid,
             activeFormId |-> IF Len(userForms) > 0 THEN targetForm.id ELSE noId,
             status |-> "idle"]
       /\ UNCHANGED <<localStorage, nextId, lastOp, ret, pre, formsEver, currentUser,
                      currentFormId>>

\* PublicPage.handleSubmit: the button is enabled while status is idle; the
\* save is deferred by setTimeout.
PublicSubmit ==
  /\ lastOp = Unobserved
  /\ publicPage.pageOwnerId # noId
  /\ publicPage.status = "idle"
  /\ publicPage' = [publicPage EXCEPT !.status = "loading"]
  /\ UNCHANGED <<localStorage, nextId, lastOp, ret, pre, formsEver, currentUser, currentFormId>>

\* The callback of the first setTimeout: saveLead with the owner and form
\* captured when the page was opened.
PublicSave ==
  \E formData \in LeadInputs :
    /\ publicPage.status = "loading"
    /\ Do("PublicPage.handleSubmit", <<publicPage.pageOwnerId, publicPage.activeFormId, formData>>,
          IF publicPage.activeFormId # noId
          THEN saveLead(localStorage, nextId, publicPage.pageOwnerId,
                        publicPage.activeFormId, formData)
          ELSE [ls |-> localStorage, n |-> nextId, ret |-> void])
    /\ publicPage' = [publicPage EXCEPT !.status = "success"]
    /\ UNCHANGED <<currentUser, currentFormId>>

\* The callback of the second setTimeout.
PublicReset ==
  /\ lastOp = Unobserved
  /\ publicPage.status = "success"
  /\ publicPage' = [publicPage EXCEPT !.status = "idle"]
  /\ UNCHANGED <<localStorage, nextId, lastOp, ret, pre, formsEver, currentUser, currentFormId>>

NextApp ==
  \/ Mount
  \/ SubmitLogin
  \/ SubmitRegister
  \/ HandleCreateForm
  \/ ChangeForm
  \/ HandleUpdateForm
  \/ HandleDeleteForm
  \/ HandleAddLead
  \/ HandleUpdateLead
  \/ HandleDeleteLead
  \/ HandleDeleteMultipleLeads
  \/ HandleLogout
  \/ SocialLogin
  \/ PublicOpen
  \/ PublicSubmit
  \/ PublicSave
  \/ PublicReset

SpecApp == Init /\ [][NextApp]_vars

\* The App opened on a legacy store that holds the session pointer of its
\* user: the user was signed in when the store was last used.
InitRestored ==
  /\ localStorage \in {setItem(ls, KEYS.CURRENT_SESSION, RawString(LegacyUser.id)) :
                         ls \in LegacyStores}
  /\ nextId = 1
  /\ lastOp = Unobserved
  /\ ret = void
  /\ pre = EmptyStore
  /\ formsEver = {}
  /\ currentUser = null
  /\ currentFormId = "all"
  /\ publicPage = PublicPageInit

SpecAppRestored == InitRestored /\ [][NextApp]_vars

\* ------------------------------------------------------------------ claims

Observed(op) == lastOp.op = op
Arg(i) == lastOp.args[i]
Session(ls) == getItem(ls, KEYS.CURRENT_SESSION)
HasKey(ls, key) == getItem(ls, key) # null
Untagged(leads) == {i \in DOMAIN leads : ~Truthy(leads[i].formId)}

\* What deleteForm(u, f) followed by listLeads(u) leaves, against the leads
\* stored before the call.
AfterDeleteForm ==
  [before |-> StoredLeads(pre, Arg(1)),
   remaining |-> LET Keep(g) == g.id # Arg(2) IN Filter(getForms(pre, Arg(1)), Keep),
   listed |-> getAllLeads(localStorage, nextId, Arg(1))]

\* C1 as stated: after deleteForm(u, f) and listLeads(u) the leads that had
\* formId f have "consolidated", the number of leads is the same, and every
\* other lead, one without a formId included, has the formId it had.
C1_AsStated ==
  Observed("deleteForm") =>
    LET d == AfterDeleteForm
    IN /\ Len(d.listed.ret) = Len(d.before)
       /\ \A i \in DOMAIN d.before :
            IF d.before[i].formId = Arg(2)
            THEN d.listed.ret[i].formId = "consolidated"
            ELSE d.listed.ret[i].formId = d.before[i].formId

\* C1 amended: after deleteForm(u, f) and listLeads(u) the number and order of
\* the leads is the same and only formId changes: the leads that had formId f
\* have "consolidated", a lead with another formId keeps it, and a lead
\* without a formId gets the id of the first form left after the deletion, or
\* stays without one when no form is left.
C1_DeleteFormMovesLeads ==
  Observed("deleteForm") =>
    LET d == AfterDeleteForm
    IN /\ Len(d.listed.ret) = Len(d.before)
       /\ StoredLeads(d.listed.ls, Arg(1)) = d.listed.ret
       /\ \A i \in DOMAIN d.before :
            /\ [d.listed.ret[i] EXCEPT !.formId = d.before[i].formId] = d.before[i]
            /\ d.listed.ret[i].formId =
                 IF d.before[i].formId = Arg(2) THEN "consolidated"
                 ELSE IF Truthy(d.before[i].formId) THEN d.before[i].formId
                 ELSE IF Len(d.remaining) > 0 THEN d.remaining[1].id
                 ELSE d.before[i].formId

\* A deleteForm(u, f) that found a lead of form f next to a lead of another form.
C1_Witness ==
  /\ Observed("deleteForm")
  /\ \E i, j \in DOMAIN StoredLeads(pre, Arg(1)) :
       /\ StoredLeads(pre, Arg(1))[i].formId = Arg(2)
       /\ Truthy(StoredLeads(pre, Arg(1))[j].formId)
       /\ StoredLeads(pre, Arg(1))[j].formId # Arg(2)
       /\ StoredLeads(localStorage, Arg(1))[i].formId = "consolidated"

\* C2 as stated, for the user the session pointer names (a user a login has
\* succeeded for): listForms(uid) is never empty.
C2_AsStated ==
  Session(localStorage) # null => Len(getForms(localStorage, Session(localStorage).v)) > 0

\* C2 amended: a successful login leaves the user's form collection stored, no
\* operation removes a stored form collection, and listForms(uid) is empty only
\* where a deleteForm(uid, _) call left it empty: no other operation empties a
\* collection or creates an empty one.
C2_FormsKeptAfterLogin ==
  /\ Observed("loginUser") /\ ret # null => HasKey(localStorage, getUserKey(ret.id, "forms"))
  /\ ~Observed("none") =>
       \A u \in UserIds(localStorage) :
         /\ HasKey(pre, getUserKey(u, "forms")) => HasKey(localStorage, getUserKey(u, "forms"))
         /\ /\ HasKey(localStorage, getUserKey(u, "forms"))
            /\ Len(getForms(localStorage, u)) = 0
            /\ Len(getForms(pre, u)) > 0 \/ ~HasKey(pre, getUserKey(u, "forms"))
            => Observed("deleteForm") /\ Arg(1) = u

\* A login that had to migrate: the user had no form collection before it.
C2_Witness ==
  /\ Observed("loginUser")
  /\ ret # null
  /\ ~HasKey(pre, getUserKey(ret.id, "forms"))
  /\ Len(getForms(localStorage, ret.id)) = 1

\* C3 as stated: every stored lead of u that has a formId has "consolidated"
\* or the id of a form u's collection holds or held, and no lead lacks a
\* formId once listLeads(u) has run (taken here only where u has a form).
C3_AsStated ==
  /\ \A u \in UserIds(localStorage) : \A l \in Range(StoredLeads(localStorage, u)) :
       Truthy(l.formId) => l.formId = "consolidated" \/ <<u, l.formId>> \in formsEver
  /\ Observed("getAllLeads") /\ Len(getForms(pre, Arg(1))) > 0 =>
       Untagged(StoredLeads(localStorage, Arg(1))) = {}

\* C4: register with an email some stored user has returns null and changes
\* no stored key (no user added, no form provisioned).
C4_DuplicateRegisterRejected ==
  Observed("registerUser") /\ (\E u \in Range(getStoredUsers(pre)) : u.email = Arg(2)) =>
    /\ ret = null
    /\ localStorage = pre
    /\ Len(getStoredUsers(localStorage)) = Len(getStoredUsers(pre))

\* A register with the email of a stored user whose password is another one.
C4_Witness ==
  /\ Observed("registerUser")
  /\ \E u \in Range(getStoredUsers(pre)) : u.email = Arg(2) /\ u.password # Arg(3)

\* C5: no two stored users have the same email.
C5_OneUserPerEmail ==
  LET users == getStoredUsers(localStorage)
  IN \A i, j \in DOMAIN users : users[i].email = users[j].email => i = j

\* Two users are stored and a register with a taken email was just refused.
C5_Witness ==
  /\ Observed("registerUser")
  /\ ret = null
  /\ Len(getStoredUsers(localStorage)) = 2

\* C6: right after a successful register(n, e, p), login(e, p) returns the
\* same user, creates no form, and listForms(uid) then has exactly one form.
C6_LoginAfterRegister ==
  Observed("registerUser") /\ ret # null =>
    LET login == loginUser(localStorage, nextId, Arg(2), Arg(3))
    IN /\ login.ret = ret
       /\ login.n = nextId
       /\ Session(login.ls) = RawString(ret.id)
       /\ Len(getForms(login.ls, ret.id)) = 1

\* A register that succeeded, for a second user.
C6_Witness ==
  /\ Observed("registerUser")
  /\ ret # null
  /\ Len(getStoredUsers(localStorage)) = 2
  /\ Len(getForms(localStorage, ret.id)) = 1

\* C7: at the App handlers the signed-in user's stored form collection is not
\* empty; after loadUserData (mount, login, register) and after
\* handleDeleteForm it holds a form, and deleting the last form through
\* handleDeleteForm leaves exactly one form, newly created.
C7_FormsNonEmptyAtAdmin ==
  /\ currentUser # null => Len(getForms(localStorage, currentUser.id)) > 0
  /\ Observed("App.handleDeleteForm") /\ FormIds(pre, Arg(1)) = {Arg(2)} =>
       LET forms == getForms(localStorage, Arg(1))
       IN /\ Len(forms) = 1
          /\ forms[1].id \notin FormIds(pre, Arg(1))
          /\ forms[1] = NewForm(DEFAULT_SETTINGS, UUID(nextId - 1), "Novo Formulario",
                                Now(nextId - 1))

\* handleDeleteForm deleted the signed-in user's only form.
C7_Witness ==
  /\ Observed("App.handleDeleteForm")
  /\ currentUser # null
  /\ FormIds(pre, Arg(1)) = {Arg(2)}
  /\ Len(getForms(localStorage, Arg(1))) = 1

\* C8: saveLead(u, f, data) followed by listLeads(u) returns one lead more
\* than listLeads(u) did before; the first has the given name, email and
\* whatsapp, formId f, an id no lead of u had and the timestamp of the call;
\* the rest are the previous leads in their order; the store holds the same.
C8_SaveLeadPrepends ==
  Observed("saveLead") =>
    LET before == getAllLeads(pre, nextId, Arg(1)).ret
        listed == getAllLeads(localStorage, nextId, Arg(1))
        after == listed.ret
    IN /\ Len(after) = Len(before) + 1
       /\ after[1].name = Arg(3).name
       /\ after[1].email = Arg(3).email
       /\ after[1].whatsapp = Arg(3).whatsapp
       /\ after[1].formId = Arg(2)
       /\ after[1].id \notin LeadIds(pre, Arg(1))
       /\ after[1].capturedAt = Now(nextId - 1)
       /\ Tail(after) = before
       /\ StoredLeads(listed.ls, Arg(1)) = after

\* A saveLead for a user who had a lead already.
C8_Witness ==
  /\ Observed("saveLead")
  /\ Len(StoredLeads(pre, Arg(1))) >= 1
  /\ Len(StoredLeads(localStorage, Arg(1))) = Len(StoredLeads(pre, Arg(1))) + 1

\* C9: listLeads(u), when u has a form and a stored lead lacks a formId, gives
\* every lead without formId the id of u's first form, leaves the other leads,
\* the order and the count as they were, and stores what it returns.
C9_BackfillFirstForm ==
  /\ Observed("getAllLeads")
  /\ Len(getForms(pre, Arg(1))) > 0
  /\ Untagged(StoredLeads(pre, Arg(1))) # {}
  => LET before == StoredLeads(pre, Arg(1))
         first == getForms(pre, Arg(1))[1].id
     IN /\ Len(ret) = Len(before)
        /\ \A i \in DOMAIN before :
             ret[i] = IF Truthy(before[i].formId) THEN before[i]
                      ELSE [before[i] EXCEPT !.formId = first]
        /\ StoredLeads(localStorage, Arg(1)) = ret
        /\ getForms(localStorage, Arg(1)) = getForms(pre, Arg(1))

\* A listLeads that tagged a lead while another lead kept its formId.
C9_Witness ==
  /\ Observed("getAllLeads")
  /\ Len(getForms(pre, Arg(1))) > 0
  /\ Untagged(StoredLeads(pre, Arg(1))) # {}
  /\ Untagged(StoredLeads(pre, Arg(1))) # DOMAIN StoredLeads(pre, Arg(1))
  /\ Untagged(StoredLeads(localStorage, Arg(1))) = {}

\* C10 as stated: after any listLeads(u) every returned and every stored lead
\* of u has a formId, whatever u's form collection holds.
C10_AsStated ==
  Observed("getAllLeads") =>
    /\ Untagged(ret) = {}
    /\ Untagged(StoredLeads(localStorage, Arg(1))) = {}

\* C10 amended: after listLeads(u) every returned and every stored lead of u
\* has a formId when u's form collection held a form at the call; when it was
\* empty or missing the leads are returned as stored and the store is left
\* as it was.
C10_TaggedWhenFormExists ==
  Observed("getAllLeads") =>
    IF Len(getForms(pre, Arg(1))) > 0
    THEN /\ Untagged(ret) = {}
         /\ Untagged(StoredLeads(localStorage, Arg(1))) = {}
    ELSE /\ ret = StoredLeads(pre, Arg(1))
         /\ localStorage = pre

\* A listLeads for a user with two forms that found a lead without formId.
C10_Witness ==
  /\ Observed("getAllLeads")
  /\ Len(getForms(pre, Arg(1))) = 2
  /\ Untagged(StoredLeads(pre, Arg(1))) # {}
  /\ Untagged(ret) = {}

LoginMatches ==
  {u \in Range(getStoredUsers(pre)) : u.email = Arg(1) /\ u.password = Arg(2)}

\* C12 as stated: no storage operation raises a fault to its caller, whatever
\* the stored strings it reads hold (absent, empty, malformed JSON, or JSON
\* of an unexpected shape such as null or an object where a list is expected).
C12_AsStated == ~lastOp.threw

\* C13: login(e, p) succeeds exactly when a stored user has email e and
\* password p; on success it returns that user without the password, the
\* session pointer is the user's id and the user's form collection key
\* exists; on failure, for a wrong email and for a wrong password alike, it
\* returns null and the store, an existing session pointer included, is as
\* it was.
C13_LoginExactMatch ==
  Observed("loginUser") =>
    /\ (ret # null) <=> (LoginMatches # {})
    /\ ret # null =>
         /\ \E u \in LoginMatches : ret = Sanitize(u)
         /\ Session(localStorage) = RawString(ret.id)
         /\ HasKey(localStorage, getUserKey(ret.id, "forms"))
         /\ \A k \in DOMAIN pre \ {KEYS.CURRENT_SESSION, getUserKey(ret.id, "forms")} :
              localStorage[k] = pre[k]
    /\ ret = null => localStorage = pre

\* A login with the email of a stored user and a wrong password, made while a
\* session pointer was set.
C13_Witness ==
  /\ Observed("loginUser")
  /\ ret = null
  /\ \E u \in Range(getStoredUsers(pre)) : u.email = Arg(1) /\ u.password # Arg(2)
  /\ Session(pre) # null
  /\ Session(localStorage) = Session(pre)

\* C14: the session pointer is set only by a successful login, to the id of
\* the user it returns, and removed only by logout; no other call changes it.
\* logout leaves the other keys alone and a second logout changes nothing.
\* After a successful login currentUser() is the user it returned, in every
\* state a set pointer names a stored user that currentUser() returns, and
\* after logout currentUser() is none.
C14_SessionLifecycle ==
  /\ (lastOp # Unobserved /\ Session(localStorage) # Session(pre)) =>
        \/ /\ Observed("loginUser")
           /\ ret # null
           /\ Session(localStorage) = RawString(ret.id)
        \/ /\ Observed("logoutUser")
           /\ Session(localStorage) = null
  /\ Observed("loginUser") =>
        IF ret # null THEN getCurrentUser(localStorage) = ret
        ELSE Session(localStorage) = Session(pre)
  /\ Observed("logoutUser") =>
        /\ ret = void
        /\ localStorage = removeItem(pre, KEYS.CURRENT_SESSION)
        /\ getCurrentUser(localStorage) = null
        /\ logoutUser(localStorage, nextId).ls = localStorage
  /\ Session(localStorage) # null =>
        /\ getCurrentUser(localStorage) # null
        /\ RawString(getCurrentUser(localStorage).id) = Session(localStorage)

\* A logout that ended the session a login had opened.
C14_Witness ==
  /\ Observed("logoutUser")
  /\ getCurrentUser(pre) # null
  /\ getCurrentUser(localStorage) = null

\* C15: where the stored user list reads as a list (the key absent, empty or
\* not JSON included), currentUser() returns none when the session pointer is
\* absent or empty or names an id no stored user has, and otherwise the
\* stored user with that id, without the password; it does not throw and
\* leaves the store as it was.
C15_CurrentUserResolves ==
  (Observed("getCurrentUser") /\ usersType(pre) = "array") =>
    LET named == {u \in Range(getStoredUsers(pre)) :
                    Session(pre) # null /\ Session(pre) = RawString(u.id)}
    IN /\ ~lastOp.threw
       /\ localStorage = pre
       /\ IF named = {} THEN ret = null
          ELSE \E u \in named : ret = Sanitize(u)

\* A currentUser() call made while the session pointer names nobody stored.
C15_Witness ==
  /\ Observed("getCurrentUser")
  /\ Session(pre) = RawString("ghost")
  /\ Len(getStoredUsers(pre)) > 0
  /\ ret = null

\* The stored users with the administrator email, and the administrator's forms.
Admins(ls) == {i \in DOMAIN getStoredUsers(ls) : getStoredUsers(ls)[i].email = adminEmail}
AdminForms(ls) ==
  IF Admins(ls) = {} THEN <<>>
  ELSE getForms(ls, getStoredUsers(ls)[Min(Admins(ls))].id)

\* C16: after a seedAdmin call exactly one stored user has the administrator
\* email, and no later operation changes that; a call that finds the
\* administrator stored leaves the whole store as it was, so it adds no user
\* and no form; a call that does not find it adds one user with one form.
C16_SeedAdminIdempotent ==
  /\ Cardinality(Admins(localStorage)) <= 1
  /\ Observed("initializeStorage") =>
        /\ Cardinality(Admins(localStorage)) = 1
        /\ initializeStorage(localStorage, nextId).ls = localStorage
        /\ initializeStorage(localStorage, nextId).n = nextId
        /\ IF Admins(pre) # {} THEN localStorage = pre
           ELSE /\ Len(getStoredUsers(localStorage)) = Len(getStoredUsers(pre)) + 1
                /\ Len(AdminForms(localStorage)) = 1
  /\ (lastOp # Unobserved /\ Admins(pre) # {}) => Admins(localStorage) = Admins(pre)

\* A seedAdmin call repeated after the administrator was given a second form.
C16_Witness ==
  /\ Observed("initializeStorage")
  /\ Admins(pre) # {}
  /\ Len(AdminForms(pre)) = 2
  /\ AdminForms(localStorage) = AdminForms(pre)

\* The stored leads whose formId is the id of a form their user had and no
\* longer has.
DanglingLeads(ls) ==
  UNION {{<<u, l.id>> : l \in {m \in Range(StoredLeads(ls, u)) :
                                 /\ <<u, m.formId>> \in formsEver
                                 /\ m.formId \notin FormIds(ls, u)}} :
         u \in UserIds(ls)}

\* C17 as stated: in every state the panel and the public page can reach, no
\* stored lead of a user has the formId of a form of that user that was
\* deleted, a submission of the public page that was opened on the form
\* before its deletion and saved after it included.
C17_AsStated == DanglingLeads(localStorage) = {}

\* The positions of the stored forms of user u that have the id of form.
FormPositions(ls, u, form) == {i \in DOMAIN getForms(ls, u) : getForms(ls, u)[i].id = form.id}

\* C18: updateForm(u, form) puts form in the place of the one stored form of
\* u with its id: the list keeps its length, every other form and every
\* other key is as it was; when no stored form of u has that id nothing is
\* written and the store is as it was.
C18_UpdateFormReplacesById ==
  Observed("updateForm") =>
    LET u == Arg(1)
        form == Arg(2)
        before == getForms(pre, u)
        after == getForms(localStorage, u)
        at == FormPositions(pre, u, form)
    IN /\ Cardinality(at) <= 1
       /\ ret = void
       /\ IF at = {} THEN localStorage = pre
          ELSE /\ Len(after) = Len(before)
               /\ \A i \in DOMAIN before : after[i] = IF i \in at THEN form ELSE before[i]
               /\ DOMAIN localStorage = DOMAIN pre
               /\ \A k \in DOMAIN pre \ {getUserKey(u, "forms")} : localStorage[k] = pre[k]

\* An updateForm that replaced the first of two stored forms by a different record.
C18_Witness ==
  /\ Observed("updateForm")
  /\ Len(getForms(pre, Arg(1))) = 2
  /\ FormPositions(pre, Arg(1), Arg(2)) = {1}
  /\ getForms(pre, Arg(1))[1] # Arg(2)
  /\ getForms(localStorage, Arg(1))[1] = Arg(2)

\* The positions of the leads in a list that have the id of lead.
LeadPositions(leads, lead) == {i \in DOMAIN leads : leads[i].id = lead.id}

\* C19 as stated: updateLead(u, lead) replaces the stored lead with the id of
\* lead in place and leaves all other leads as stored; when no stored lead
\* has that id the stored lead list of u is exactly as it was, a list with
\* leads without a formId included.
C19_AsStated ==
  Observed("updateLead") =>
    LET before == StoredLeads(pre, Arg(1))
        after == StoredLeads(localStorage, Arg(1))
        at == LeadPositions(before, Arg(2))
    IN /\ Len(after) = Len(before)
       /\ \A i \in DOMAIN before : after[i] = IF i \in at THEN Arg(2) ELSE before[i]

\* C19 amended: updateLead(u, lead) first lists the leads of u, which gives
\* the leads without a formId the id of u's first form when u has a form,
\* and stores that; it then replaces in place the one lead with the id of
\* lead and leaves every other listed lead and every other key as it was.
\* When no lead has that id the store is as listLeads(u) alone leaves it.
C19_UpdateLeadReplacesById ==
  Observed("updateLead") =>
    LET u == Arg(1)
        listed == getAllLeads(pre, nextId, u)
        before == listed.ret
        after == StoredLeads(localStorage, u)
        at == LeadPositions(before, Arg(2))
    IN /\ Cardinality(at) <= 1
       /\ ret = void
       /\ Len(before) = Len(StoredLeads(pre, u))
       /\ IF at = {} THEN localStorage = listed.ls
          ELSE /\ Len(after) = Len(before)
               /\ \A i \in DOMAIN before : after[i] = IF i \in at THEN Arg(2) ELSE before[i]
               /\ DOMAIN localStorage = DOMAIN pre
               /\ \A k \in DOMAIN pre \ {getUserKey(u, "leads")} : localStorage[k] = pre[k]

\* An updateLead with an unknown id, on a list that held a lead without a
\* formId while the user had a form: the stored list changed.
C19_Witness ==
  /\ Observed("updateLead")
  /\ LeadPositions(StoredLeads(pre, Arg(1)), Arg(2)) = {}
  /\ Untagged(StoredLeads(pre, Arg(1))) # {}
  /\ Untagged(StoredLeads(localStorage, Arg(1))) = {}
  /\ StoredLeads(localStorage, Arg(1)) # StoredLeads(pre, Arg(1))

\* The orders in which the ids of a set can be given one at a time.
Orders(ids) ==
  {o \in [1..Cardinality(ids) -> ids] : \A i, j \in DOMAIN o : o[i] = o[j] => i = j}

\* The store after deleteLead(u, id) for each id of the sequence in turn.
RECURSIVE DeleteEach(_, _, _, _)
DeleteEach(ls, n, u, order) ==
  IF Len(order) = 0 THEN ls
  ELSE DeleteEach(deleteLead(ls, n, u, order[1]).ls, n, u, Tail(order))

IdsOf(leads) == [i \in DOMAIN leads |-> leads[i].id]

\* C20: deleteManyLeads(u, ids) leaves the leads listLeads(u) returns whose id
\* is not in ids, in their order, and no other key changes; an id no lead has
\* is ignored; deleting the ids one at a time with deleteLead, in any order,
\* leaves the same store (for no ids: the same listed leads); and
\* deleteLead(u, id) leaves the store deleteManyLeads(u, [id]) leaves.
C20_DeleteLeadsSetDifference ==
  /\ Observed("deleteMultipleLeads") =>
        LET u == Arg(1)
            ids == Arg(2)
            Keep(l) == l.id \notin ids
            KeepId(id) == id \notin ids
        IN /\ ret = void
           /\ ~lastOp.threw
           /\ StoredLeads(localStorage, u) = Filter(getAllLeads(pre, nextId, u).ret, Keep)
           /\ IdsOf(StoredLeads(localStorage, u)) = Filter(IdsOf(StoredLeads(pre, u)), KeepId)
           /\ \A k \in DOMAIN pre \ {getUserKey(u, "leads")} :
                k \in DOMAIN localStorage /\ localStorage[k] = pre[k]
           /\ \A o \in Orders(ids) :
                IF ids # {} THEN DeleteEach(pre, nextId, u, o) = localStorage
                ELSE getAllLeads(pre, nextId, u).ret = getAllLeads(localStorage, nextId, u).ret
  /\ Observed("deleteLead") =>
        localStorage = deleteMultipleLeads(pre, nextId, Arg(1), {Arg(2)}).ls

\* A deleteManyLeads given the ids of two of three stored leads and an id no
\* lead has.
C20_Witness ==
  /\ Observed("deleteMultipleLeads")
  /\ Len(StoredLeads(pre, Arg(1))) = 3
  /\ Cardinality(Arg(2)) = 3
  /\ "ghost" \in Arg(2)
  /\ Len(StoredLeads(localStorage, Arg(1))) = 1

\* The content, style and delivery fields of a form: those of AppSettings.
SettingsOf(form) == [k \in DOMAIN DEFAULT_SETTINGS |-> form[k]]

\* C21: createForm(u, title) returns a form with the given title, the default
\* template and an id no stored form of u has, stores the forms of u as
\* they were with the new form after them, and changes no other key;
\* deleteForm(u, id of the new form) then leaves the forms that were there.
\* So a registered user has two forms after createForm and the original one
\* after the deleteForm.
C21_CreateFormAppends ==
  Observed("createForm") =>
    LET u == Arg(1)
        before == getForms(pre, u)
        after == getForms(localStorage, u)
    IN /\ ~lastOp.threw
       /\ ret.title = Arg(2)
       /\ SettingsOf(ret) = DEFAULT_SETTINGS
       /\ DOMAIN ret = DOMAIN DEFAULT_SETTINGS \cup {"id", "title", "createdAt"}
       /\ ret.id \notin FormIds(pre, u)
       /\ after = Append(before, ret)
       /\ \A k \in DOMAIN pre \ {getUserKey(u, "forms")} :
            k \in DOMAIN localStorage /\ localStorage[k] = pre[k]
       /\ getForms(deleteForm(localStorage, nextId, u, ret.id).ls, u) = before

\* createForm(uid, "Promo") called for a registered and signed-in user who had
\* the one form registration gave.
C21_Witness ==
  /\ Observed("createForm")
  /\ Session(pre) = RawString(Arg(1))
  /\ Len(getForms(pre, Arg(1))) = 1
  /\ getForms(pre, Arg(1))[1].title = "Meu Primeiro Formulario"
  /\ Arg(2) = "Promo"
  /\ Len(getForms(localStorage, Arg(1))) = 2
  /\ getForms(localStorage, Arg(1))[2] = ret

\* C22: listForms(u) and getForm(u, id) leave the store as it was, so they
\* create no form; listForms returns the stored sequence, and the empty
\* sequence when u has no stored form collection; getForm returns the stored
\* form with that id, or none.
C22_FormReadsArePure ==
  /\ Observed("getForms") =>
       /\ localStorage = pre
       /\ ~lastOp.threw
       /\ IF HasKey(pre, getUserKey(Arg(1), "forms"))
          THEN ret = pre[getUserKey(Arg(1), "forms")].v
          ELSE ret = <<>>
  /\ Observed("getFormById") =>
       LET forms == StoredForms(pre, Arg(1))
           at == {i \in DOMAIN forms : forms[i].id = Arg(2)}
       IN /\ localStorage = pre
          /\ ~lastOp.threw
          /\ IF at = {} THEN ret = undefined
             ELSE \E i \in at : ret = forms[i]

\* listForms for a stored user who has no form collection: it returned the
\* empty sequence and no collection was created.
C22_Witness ==
  /\ Observed("getForms")
  /\ Arg(1) \in UserIds(pre)
  /\ ~HasKey(localStorage, getUserKey(Arg(1), "forms"))
  /\ ret = <<>>

\* C23: every operation leaves the stored user records that were there
\* unchanged and in place; the list grows by one record at its end, and only
\* in a successful register, which returns that user, or in a seedAdmin,
\* which adds the administrator; no operation shortens it.
C23_UserListAppendOnly ==
  lastOp # Unobserved =>
    LET b == getStoredUsers(pre)
        a == getStoredUsers(localStorage)
    IN /\ Len(a) \in {Len(b), Len(b) + 1}
       /\ SubSeq(a, 1, Len(b)) = b
       /\ Len(a) = Len(b) + 1 =>
            \/ Observed("registerUser") /\ ret = Sanitize(a[Len(a)])
            \/ Observed("initializeStorage") /\ a[Len(a)].email = adminEmail
       /\ (Observed("registerUser") /\ ret # null) => Len(a) = Len(b) + 1

\* A successful register that added a second user after the stored one.
C23_Witness ==
  /\ Observed("registerUser")
  /\ Len(getStoredUsers(pre)) = 1
  /\ Len(getStoredUsers(localStorage)) = 2
  /\ getStoredUsers(localStorage)[1] = getStoredUsers(pre)[1]
  /\ getStoredUsers(localStorage)[2].password = Arg(3)

\* The operations that return a User.
ReturnsUser == Observed("registerUser") \/ Observed("loginUser") \/ Observed("getCurrentUser")

\* C24: a user returned by register, login or currentUser has exactly the
\* fields id, name, email and createdAt, with the values of a stored record
\* that also holds the password.
C24_ReturnedUserHasNoPassword ==
  (ReturnsUser /\ ret # null) =>
    /\ DOMAIN ret = {"id", "name", "email", "createdAt"}
    /\ \E u \in Range(getStoredUsers(localStorage)) :
         /\ DOMAIN u = {"id", "name", "email", "createdAt", "password"}
         /\ \A k \in DOMAIN ret : ret[k] = u[k]

\* A login that returned the user stored with the password it was given.
C24_Witness ==
  /\ Observed("loginUser")
  /\ ret # null
  /\ \E u \in Range(getStoredUsers(localStorage)) : u.id = ret.id /\ u.password = Arg(2)

\* C25 as stated: if execution stops between the form-list write and the
\* lead-list write of deleteForm(u, f), the store is not left with f absent
\* from the forms of u and a lead of u tagged f.
C25_AsStated ==
  (Observed("deleteForm: step 1") /\ Arg(2) \in FormIds(pre, Arg(1))) =>
    ~ /\ Arg(2) \notin FormIds(localStorage, Arg(1))
      /\ \E l \in Range(StoredLeads(localStorage, Arg(1))) : l.formId = Arg(2)

\* The legacy settings keys, and the ids a store holds.
SettingsKeys == {getUserKey(UUID(i), "settings") : i \in 0..(MaxIds + 1)}
IdsIn(ls) ==
  UserIds(ls) \cup UNION {FormIds(ls, u) \cup LeadIds(ls, u) : u \in UserIds(ls)}

\* C26: a login of a user whose form collection key is absent stores a
\* collection of exactly one form, titled as the migrated default, with an id
\* the store did not hold, whose content, style and delivery fields are
\* those of the user's legacy settings record when one is stored, and those
\* of the default when the settings key is absent, empty or not JSON.  No
\* operation writes or removes a legacy settings key.
C26_MigrationBuildsOneForm ==
  /\ lastOp # Unobserved =>
       \A k \in SettingsKeys : getItem(localStorage, k) = getItem(pre, k)
  /\ (/\ Observed("loginUser")
      /\ ~lastOp.threw
      /\ ret # null
      /\ ~HasKey(pre, getUserKey(ret.id, "forms"))
      /\ getItem(pre, getUserKey(ret.id, "settings")) \notin {JSONnull, JSONobject}) =>
       LET forms == getForms(localStorage, ret.id)
           oldSettings == getItem(pre, getUserKey(ret.id, "settings"))
       IN /\ Len(forms) = 1
          /\ forms[1].title = "Formulario Padrao (Migrado)"
          /\ forms[1].id \notin IdsIn(pre)
          /\ DOMAIN forms[1] = DOMAIN DEFAULT_SETTINGS \cup {"id", "title", "createdAt"}
          /\ SettingsOf(forms[1]) =
               IF oldSettings # null /\ oldSettings.tag = "json" THEN oldSettings.v
               ELSE DEFAULT_SETTINGS

\* A login that migrated a stored legacy settings record into the one form.
C26_Witness ==
  /\ Observed("loginUser")
  /\ ~lastOp.threw
  /\ ret # null
  /\ ~HasKey(pre, getUserKey(ret.id, "forms"))
  /\ getItem(pre, getUserKey(ret.id, "settings")) = JSONstringify(LegacySettings)
  /\ Len(getForms(localStorage, ret.id)) = 1
  /\ getForms(localStorage, ret.id)[1].headline = "Oferta Antiga"

\* The App handlers that sign a user in.
AppEntry == lastOp.op \in {"App.mount", "App.login", "App.register", "App.socialLogin"}

\* C27 as stated: in every App-level entry (startup with a restored session
\* pointer, login, register, social login) the migration runs for the user
\* before the App reads or creates forms, so a user with legacy settings and
\* no form collection has the migrated form, not a default-template one.
C27_AsStated ==
  (/\ AppEntry
   /\ ret # null
   /\ HasKey(pre, getUserKey(ret.id, "settings"))
   /\ ~HasKey(pre, getUserKey(ret.id, "forms"))) =>
    /\ getForms(localStorage, ret.id)[1].title = "Formulario Padrao (Migrado)"
    /\ SettingsOf(getForms(localStorage, ret.id)[1]) =
         getItem(pre, getUserKey(ret.id, "settings")).v

\* The form and lead operations that take a user id as their first argument.
UserOps ==
  {"createForm", "updateForm", "deleteForm", "getAllLeads", "saveLead",
   "updateLead", "deleteLead", "deleteMultipleLeads", "migrateLegacySettings"}

\* What the store holds for user v: forms, leads and legacy settings.
DataOf(ls, v) == [k \in {"forms", "leads", "settings"} |-> getItem(ls, getUserKey(v, k))]

\* C28: a form or lead operation called with user id u leaves the forms,
\* leads and legacy settings of every other user, the user list and the
\* session pointer unchanged.
C28_PerUserIsolation ==
  lastOp.op \in UserOps =>
    /\ \A v \in UserIds(pre) \ {Arg(1)} : DataOf(localStorage, v) = DataOf(pre, v)
    /\ getItem(localStorage, KEYS.USERS) = getItem(pre, KEYS.USERS)
    /\ Session(localStorage) = Session(pre)

C28_Witness ==
  /\ lastOp.op \in UserOps
  /\ ~lastOp.threw
  /\ DataOf(localStorage, Arg(1)) # DataOf(pre, Arg(1))
  /\ \E v \in UserIds(pre) \ {Arg(1)} : HasKey(pre, getUserKey(v, "forms"))
  /\ Session(pre) # null

\* C29: in every reachable state the session pointer is absent or is the id
\* of a user in the stored user list, and a currentUser() call returns none
\* only when the pointer is absent.
C29_PointerNamesStoredUser ==
  /\ Session(localStorage) # null =>
       \E u \in Range(getStoredUsers(localStorage)) : Session(localStorage) = RawString(u.id)
  /\ (Observed("getCurrentUser") /\ ret = null) => Session(pre) = null

\* currentUser() called while the pointer names the second of two stored users.
C29_Witness ==
  /\ Observed("getCurrentUser")
  /\ ~lastOp.threw
  /\ ret # null
  /\ Len(getStoredUsers(pre)) > 1
  /\ Session(pre) = RawString(getStoredUsers(pre)[2].id)

\* At an observed deleteForm(u, f): the store that listLeads(u) followed by
\* deleteForm(u, f) gives from the same state, and what the state held.
ListedThenDeleted ==
  [ls |-> deleteForm(getAllLeads(pre, nextId, Arg(1)).ls, nextId, Arg(1), Arg(2)).ls,
   forms |-> getForms(pre, Arg(1)),
   leads |-> StoredLeads(pre, Arg(1))]

\* C30 as stated: listLeads(u) immediately before deleteForm(u, f) gives the
\* same final stored lead list as deleteForm(u, f) alone, for every stored
\* state of u.
C30_AsStated ==
  Observed("deleteForm") =>
    StoredLeads(ListedThenDeleted.ls, Arg(1)) = StoredLeads(localStorage, Arg(1))

\* C30 amended: the two give the same store unless f is u's first form and
\* some stored lead lacks a formId. In that case the leads without a formId
\* end as "consolidated" when listLeads(u) ran first, and with deleteForm(u, f)
\* alone they have the id of the first form left, or still no formId when no
\* form is left; every other lead is the same either way.
C30_BackfillOrderMatters ==
  Observed("deleteForm") =>
    LET d == ListedThenDeleted
        listedFirst == StoredLeads(d.ls, Arg(1))
        alone == StoredLeads(localStorage, Arg(1))
        remaining == getForms(localStorage, Arg(1))
    IN IF Untagged(d.leads) # {} /\ Len(d.forms) > 0 /\ d.forms[1].id = Arg(2)
       THEN /\ Len(listedFirst) = Len(alone)
            /\ getForms(d.ls, Arg(1)) = remaining
            /\ \A i \in DOMAIN d.leads :
                 IF i \in Untagged(d.leads)
                 THEN /\ listedFirst[i] = [d.leads[i] EXCEPT !.formId = "consolidated"]
                      /\ alone[i] = IF Len(remaining) > 0
                                    THEN [d.leads[i] EXCEPT !.formId = remaining[1].id]
                                    ELSE d.leads[i]
                 ELSE listedFirst[i] = alone[i]
       ELSE d.ls = localStorage

\* A deleteForm of the first of two forms with a stored lead without formId.
C30_Witness ==
  /\ Observed("deleteForm")
  /\ Len(ListedThenDeleted.forms) = 2
  /\ ListedThenDeleted.forms[1].id = Arg(2)
  /\ Untagged(ListedThenDeleted.leads) # {}
  /\ Untagged(StoredLeads(localStorage, Arg(1))) = {}

====
